---- MODULE Spec2Model ----
(***************************************************************************)
(* IntervalMap: a map keyed by closed numeric intervals [a,b], stored in   *)
(* an AVL tree ordered by lexicographic (a,b) and augmented with the       *)
(* maximum right endpoint of every subtree.                                *)
(*                                                                         *)
(* A tree is Nil or a node record [i, v, m, h, l, r] as built by           *)
(* IntervalMapNode.  The map owns its nodes exclusively, so the in-place   *)
(* field assignments of the source are modelled by rebuilding the record.  *)
(***************************************************************************)
EXTENDS Integers, Sequences, FiniteSets, TLC

(* Two families of maps are explored.  Dense maps are keyed by any of the  *)
(* intervals with endpoints in 0..MaxPoint and carry any values.  Chain    *)
(* maps hold any subset of the MaxChain + 1 intervals ChainKey(p), all     *)
(* with the same value: two intervals per start, a single point and a      *)
(* longer one reaching over its successors, so that chain maps have equal  *)
(* starts, nested, overlapping, touching and disjoint intervals in trees   *)
(* deep enough for every rebalancing path.                                 *)
MaxPoint == 1
MaxChain == 7

Points == 0..MaxPoint
Intervals == {[a |-> p, b |-> q] : p \in Points, q \in Points}
DenseKeys == {it \in Intervals : it.a <= it.b}
ChainKey(p) ==
    [a |-> p \div 2, b |-> (p \div 2) + (p % 2) * (1 + ((p \div 2) % 3))]
ChainKeys == {ChainKey(p) : p \in 0..MaxChain}
Keys == DenseKeys \cup ChainKeys
Values == {"A", "B"}

InBounds(d) ==
    \/ DOMAIN d \subseteq DenseKeys
    \/ DOMAIN d \subseteq ChainKeys /\ \A k \in DOMAIN d : d[k] = "A"

(* The points and intervals queries are asked about: every endpoint in use *)
(* and one point beyond the largest.                                       *)
QueryPoints == 0..((MaxChain \div 2) + 4)
Queries == {q \in [a : QueryPoints, b : QueryPoints] : q.a <= q.b}

(* The arrays handed to fromArray: every array of at most MaxPairs pairs    *)
(* over the dense keys and over the step keys [0,1], [1,2], [3,4] (two     *)
(* that touch and one apart), in any order and with repeated keys, and the *)
(* chain keys in descending order with values that change every third key. *)
MaxPairs == 3
Pairs == [interval : DenseKeys, value : Values]
ChainArray(n) ==
    [j \in 1..n |-> [interval |-> ChainKey(n - j),
                     value |-> IF (n - j) % 3 = 0 THEN "B" ELSE "A"]]
StepKeys == {[a |-> p, b |-> p + 1] : p \in {0, 1, 3}}
StepPairs == [interval : StepKeys, value : Values]
Arrays ==
    UNION {[1..n -> Pairs] \cup [1..n -> StepPairs] : n \in 0..MaxPairs}
        \cup {ChainArray(n) : n \in 1..(MaxChain + 1)}

(* The keys set and deleted on a map and on its clone.                     *)
MaxClone == 2
CloneKeys == {ChainKey(p) : p \in 0..MaxClone}

(* JavaScript null: the absent child and the "not found" result.           *)
Nil == <<>>
Null == "null"

(* Arguments that are not Interval instances: null and a plain object with *)
(* the fields of an interval.  An Interval instance is a record with       *)
(* exactly the fields a and b.                                             *)
NonIntervals == {Nil, [a |-> 0, b |-> 1, constructor |-> "Object"]}
Args == CloneKeys \cup NonIntervals

VARIABLES root, size, ref, last, copy

vars == <<root, size, ref, last, copy>>

----------------------------------------------------------------------------
(* Node primitives                                                         *)

IntervalMapNode(i, v) ==
    [i |-> i, v |-> v, m |-> i.b, h |-> 1, l |-> Nil, r |-> Nil]

height(n) == IF n = Nil THEN 0 ELSE n.h

update(n) ==
    LET hl == height(n.l)
        hr == height(n.r)
        m0 == n.i.b
        m1 == IF n.l # Nil /\ n.l.m > m0 THEN n.l.m ELSE m0
        m2 == IF n.r # Nil /\ n.r.m > m1 THEN n.r.m ELSE m1
    IN  [n EXCEPT !.h = (IF hl > hr THEN hl ELSE hr) + 1, !.m = m2]

bf(n) == height(n.l) - height(n.r)

rotL(x) ==
    LET y == x.r
        T2 == y.l
        x2 == update([x EXCEPT !.r = T2])
    IN  update([y EXCEPT !.l = x2])

rotR(y) ==
    LET x == y.l
        T2 == x.r
        y2 == update([y EXCEPT !.l = T2])
    IN  update([x EXCEPT !.r = y2])

(* rebalance without the double rotations.                                 *)
rebalanceSingleOnly(n) ==
    LET b == bf(n)
    IN  IF b > 1 THEN rotR(n)
        ELSE IF b < -1 THEN rotL(n)
        ELSE n

(* rebalance that repairs a left-heavy node alone.                         *)
rebalanceLeftOnly(n) ==
    LET b == bf(n)
    IN  IF b > 1
        THEN IF bf(n.l) < 0
             THEN rotR([n EXCEPT !.l = rotL(n.l)])
             ELSE rotR(n)
        ELSE n

rebalance(n) ==
    LET b == bf(n)
    IN  IF b > 1
        THEN IF bf(n.l) < 0
             THEN rotR([n EXCEPT !.l = rotL(n.l)])
             ELSE rotR(n)
        ELSE IF b < -1
        THEN IF bf(n.r) > 0
             THEN rotL([n EXCEPT !.r = rotR(n.r)])
             ELSE rotL(n)
        ELSE n

(* A test that accepts whatever has the fields a and b.                    *)
instanceofDuck(it) == {"a", "b"} \subseteq DOMAIN it

(* it instanceof Interval                                                  *)
instanceofInterval(it) == DOMAIN it = {"a", "b"}

(* Interval.compareTo of the interval type: the sign of the lexicographic  *)
(* comparison of (a,b).                                                    *)
compareTo(x, y) ==
    IF x.a # y.a THEN (IF x.a < y.a THEN -1 ELSE 1)
    ELSE IF x.b # y.b THEN (IF x.b < y.b THEN -1 ELSE 1)
    ELSE 0

----------------------------------------------------------------------------
(* set: ins returns the new subtree and the number of nodes it created     *)
(* (the increments of self.size).                                          *)

(* ins without the branch for an equal key: an equal key goes right.       *)
RECURSIVE insNoEqual(_, _, _)
insNoEqual(n, it, val) ==
    IF n = Nil
    THEN [node |-> IntervalMapNode(it, val), inc |-> 1]
    ELSE LET c == compareTo(it, n.i)
         IN  IF c < 0
             THEN LET s == insNoEqual(n.l, it, val)
                  IN  [node |-> rebalance(update([n EXCEPT !.l = s.node])),
                       inc |-> s.inc]
             ELSE LET s == insNoEqual(n.r, it, val)
                  IN  [node |-> rebalance(update([n EXCEPT !.r = s.node])),
                       inc |-> s.inc]

(* ins that counts the replacement of a value as a new entry.              *)
RECURSIVE insCountsReplace(_, _, _)
insCountsReplace(n, it, val) ==
    IF n = Nil
    THEN [node |-> IntervalMapNode(it, val), inc |-> 1]
    ELSE LET c == compareTo(it, n.i)
         IN  IF c < 0
             THEN LET s == insCountsReplace(n.l, it, val)
                  IN  [node |-> rebalance(update([n EXCEPT !.l = s.node])),
                       inc |-> s.inc]
             ELSE IF c > 0
             THEN LET s == insCountsReplace(n.r, it, val)
                  IN  [node |-> rebalance(update([n EXCEPT !.r = s.node])),
                       inc |-> s.inc]
             ELSE [node |-> [n EXCEPT !.v = val], inc |-> 1]

RECURSIVE ins(_, _, _)
ins(n, it, val) ==
    IF n = Nil
    THEN [node |-> IntervalMapNode(it, val), inc |-> 1]
    ELSE LET c == compareTo(it, n.i)
         IN  IF c < 0
             THEN LET s == ins(n.l, it, val)
                  IN  [node |-> rebalance(update([n EXCEPT !.l = s.node])),
                       inc |-> s.inc]
             ELSE IF c > 0
             THEN LET s == ins(n.r, it, val)
                  IN  [node |-> rebalance(update([n EXCEPT !.r = s.node])),
                       inc |-> s.inc]
             ELSE [node |-> [n EXCEPT !.v = val], inc |-> 0]

(* get that matches on the start alone.                                    *)
RECURSIVE getLoopStartOnly(_, _)
getLoopStartOnly(n, it) ==
    IF n = Nil THEN Null
    ELSE IF it.a < n.i.a THEN getLoopStartOnly(n.l, it)
    ELSE IF it.a > n.i.a THEN getLoopStartOnly(n.r, it)
    ELSE n.v

(* get: the descent compares a first, then b.                              *)
RECURSIVE getLoop(_, _)
getLoop(n, it) ==
    IF n = Nil THEN Null
    ELSE IF it.a < n.i.a THEN getLoop(n.l, it)
    ELSE IF it.a > n.i.a THEN getLoop(n.r, it)
    ELSE IF it.b = n.i.b THEN n.v
    ELSE IF it.b < n.i.b THEN getLoop(n.l, it)
    ELSE getLoop(n.r, it)

get(it) == getLoop(root, it)

----------------------------------------------------------------------------
(* delete                                                                  *)

RECURSIVE minNode(_)
minNode(n) == IF n.l # Nil THEN minNode(n.l) ELSE n

(* delMin that rebalances without recomputing height and subtreeMax.       *)
RECURSIVE delMinNoUpdate(_, _)
delMinNoUpdate(n2, s) ==
    IF n2 = Nil THEN Nil
    ELSE IF n2 = s THEN n2.r
    ELSE rebalance([n2 EXCEPT !.l = delMinNoUpdate(n2.l, s)])

RECURSIVE delMin(_, _)
delMin(n2, s) ==
    IF n2 = Nil THEN Nil
    ELSE IF n2 = s THEN n2.r
    ELSE rebalance(update([n2 EXCEPT !.l = delMin(n2.l, s)]))

(* del that copies the successor's interval but not its value.             *)
RECURSIVE delKeepValue(_, _)
delKeepValue(n, it) ==
    IF n = Nil
    THEN [node |-> Nil, removed |-> FALSE]
    ELSE LET c == compareTo(it, n.i)
         IN  IF c < 0
             THEN LET d == delKeepValue(n.l, it)
                  IN  [node |-> rebalance(update([n EXCEPT !.l = d.node])),
                       removed |-> d.removed]
             ELSE IF c > 0
             THEN LET d == delKeepValue(n.r, it)
                  IN  [node |-> rebalance(update([n EXCEPT !.r = d.node])),
                       removed |-> d.removed]
             ELSE IF n.l = Nil \/ n.r = Nil
             THEN LET tmp == IF n.l # Nil THEN n.l ELSE n.r
                  IN  [node |-> IF tmp # Nil THEN rebalance(update(tmp)) ELSE Nil,
                       removed |-> TRUE]
             ELSE LET s == minNode(n.r)
                      n1 == [n EXCEPT !.i = s.i, !.r = delMin(n.r, s)]
                  IN  [node |-> rebalance(update(n1)), removed |-> TRUE]

(* del that replaces a node with two children by its left subtree.         *)
RECURSIVE delDropRight(_, _)
delDropRight(n, it) ==
    IF n = Nil
    THEN [node |-> Nil, removed |-> FALSE]
    ELSE LET c == compareTo(it, n.i)
         IN  IF c < 0
             THEN LET d == delDropRight(n.l, it)
                  IN  [node |-> rebalance(update([n EXCEPT !.l = d.node])),
                       removed |-> d.removed]
             ELSE IF c > 0
             THEN LET d == delDropRight(n.r, it)
                  IN  [node |-> rebalance(update([n EXCEPT !.r = d.node])),
                       removed |-> d.removed]
             ELSE IF n.l = Nil \/ n.r = Nil
             THEN LET tmp == IF n.l # Nil THEN n.l ELSE n.r
                  IN  [node |-> IF tmp # Nil THEN rebalance(update(tmp)) ELSE Nil,
                       removed |-> TRUE]
             ELSE [node |-> rebalance(update(n.l)), removed |-> TRUE]

(* del that splices a node out by its left child alone.                   *)
RECURSIVE delSpliceLeft(_, _)
delSpliceLeft(n, it) ==
    IF n = Nil
    THEN [node |-> Nil, removed |-> FALSE]
    ELSE LET c == compareTo(it, n.i)
         IN  IF c < 0
             THEN LET d == delSpliceLeft(n.l, it)
                  IN  [node |-> rebalance(update([n EXCEPT !.l = d.node])),
                       removed |-> d.removed]
             ELSE IF c > 0
             THEN LET d == delSpliceLeft(n.r, it)
                  IN  [node |-> rebalance(update([n EXCEPT !.r = d.node])),
                       removed |-> d.removed]
             ELSE IF n.l = Nil \/ n.r = Nil
             THEN LET tmp == n.l
                  IN  [node |-> IF tmp # Nil THEN rebalance(update(tmp)) ELSE Nil,
                       removed |-> TRUE]
             ELSE LET s == minNode(n.r)
                      n1 == [n EXCEPT !.i = s.i, !.v = s.v,
                                      !.r = delMin(n.r, s)]
                  IN  [node |-> rebalance(update(n1)), removed |-> TRUE]

RECURSIVE del(_, _)
del(n, it) ==
    IF n = Nil
    THEN [node |-> Nil, removed |-> FALSE]
    ELSE LET c == compareTo(it, n.i)
         IN  IF c < 0
             THEN LET d == del(n.l, it)
                  IN  [node |-> rebalance(update([n EXCEPT !.l = d.node])),
                       removed |-> d.removed]
             ELSE IF c > 0
             THEN LET d == del(n.r, it)
                  IN  [node |-> rebalance(update([n EXCEPT !.r = d.node])),
                       removed |-> d.removed]
             ELSE IF n.l = Nil \/ n.r = Nil
             THEN LET tmp == IF n.l # Nil THEN n.l ELSE n.r
                  IN  [node |-> IF tmp # Nil THEN rebalance(update(tmp)) ELSE Nil,
                       removed |-> TRUE]
             ELSE LET s == minNode(n.r)
                      n1 == [n EXCEPT !.i = s.i, !.v = s.v,
                                      !.r = delMin(n.r, s)]
                  IN  [node |-> rebalance(update(n1)), removed |-> TRUE]

(* The branch of del that a call takes: the key is absent, its node has at *)
(* most one child and is spliced out, or it has two children and receives  *)
(* its in-order successor; path counts the nodes delMin re-augments above  *)
(* the successor.                                                          *)
RECURSIVE spine(_)
spine(n) == IF n.l # Nil THEN 1 + spine(n.l) ELSE 0

RECURSIVE delBranch(_, _)
delBranch(n, it) ==
    IF n = Nil
    THEN [branch |-> "absent", path |-> 0]
    ELSE LET c == compareTo(it, n.i)
         IN  IF c < 0 THEN delBranch(n.l, it)
             ELSE IF c > 0 THEN delBranch(n.r, it)
             ELSE IF n.l = Nil \/ n.r = Nil
             THEN [branch |-> "splice", path |-> 0]
             ELSE [branch |-> "successor", path |-> spine(n.r)]

----------------------------------------------------------------------------
(* Queries                                                                 *)

(* hasOverlap that descends left only when the left maximum exceeds qa.    *)
RECURSIVE hasOverlapLoopStrict(_, _)
hasOverlapLoopStrict(n, q) ==
    IF n = Nil THEN FALSE
    ELSE IF n.i.a <= q.b /\ q.a <= n.i.b THEN TRUE
    ELSE IF n.l # Nil /\ n.l.m > q.a THEN hasOverlapLoopStrict(n.l, q)
    ELSE hasOverlapLoopStrict(n.r, q)

RECURSIVE hasOverlapLoop(_, _)
hasOverlapLoop(n, q) ==
    IF n = Nil THEN FALSE
    ELSE IF n.i.a <= q.b /\ q.a <= n.i.b THEN TRUE
    ELSE IF n.l # Nil /\ n.l.m >= q.a THEN hasOverlapLoop(n.l, q)
    ELSE hasOverlapLoop(n.r, q)

hasOverlap(q) == hasOverlapLoop(root, q)

(* getOverlapping that visits the right subtree only when a < qb.          *)
RECURSIVE getOverlappingDfsStrict(_, _)
getOverlappingDfsStrict(n, q) ==
    IF n = Nil THEN <<>>
    ELSE (IF n.l # Nil /\ n.l.m >= q.a
          THEN getOverlappingDfsStrict(n.l, q) ELSE <<>>)
         \o (IF n.i.a <= q.b /\ q.a <= n.i.b
             THEN <<[interval |-> n.i, value |-> n.v]>> ELSE <<>>)
         \o (IF n.r # Nil /\ n.i.a < q.b
             THEN getOverlappingDfsStrict(n.r, q) ELSE <<>>)

RECURSIVE getOverlappingDfs(_, _)
getOverlappingDfs(n, q) ==
    IF n = Nil THEN <<>>
    ELSE (IF n.l # Nil /\ n.l.m >= q.a THEN getOverlappingDfs(n.l, q) ELSE <<>>)
         \o (IF n.i.a <= q.b /\ q.a <= n.i.b
             THEN <<[interval |-> n.i, value |-> n.v]>> ELSE <<>>)
         \o (IF n.r # Nil /\ n.i.a <= q.b THEN getOverlappingDfs(n.r, q) ELSE <<>>)

getOverlapping(q) == getOverlappingDfs(root, q)

(* getAt(x, true) that visits the left subtree only when its maximum      *)
(* exceeds x.                                                              *)
RECURSIVE getAtDfsStrict(_, _)
getAtDfsStrict(n, x) ==
    IF n = Nil THEN <<>>
    ELSE (IF n.l # Nil /\ n.l.m > x THEN getAtDfsStrict(n.l, x) ELSE <<>>)
         \o (IF n.i.a <= x /\ x <= n.i.b
             THEN <<[interval |-> n.i, value |-> n.v]>> ELSE <<>>)
         \o (IF n.r # Nil /\ n.i.a <= x THEN getAtDfsStrict(n.r, x) ELSE <<>>)

RECURSIVE getAtDfs(_, _)
getAtDfs(n, x) ==
    IF n = Nil THEN <<>>
    ELSE (IF n.l # Nil /\ n.l.m >= x THEN getAtDfs(n.l, x) ELSE <<>>)
         \o (IF n.i.a <= x /\ x <= n.i.b
             THEN <<[interval |-> n.i, value |-> n.v]>> ELSE <<>>)
         \o (IF n.r # Nil /\ n.i.a <= x THEN getAtDfs(n.r, x) ELSE <<>>)

(* The fast path of getAt with the right endpoint excluded.                *)
RECURSIVE getAtLoopOpenEnd(_, _)
getAtLoopOpenEnd(n, x) ==
    IF n = Nil THEN Null
    ELSE IF x < n.i.a THEN getAtLoopOpenEnd(n.l, x)
    ELSE IF x >= n.i.b THEN getAtLoopOpenEnd(n.r, x)
    ELSE n.v

RECURSIVE getAtLoop(_, _)
getAtLoop(n, x) ==
    IF n = Nil THEN Null
    ELSE IF x < n.i.a THEN getAtLoop(n.l, x)
    ELSE IF x > n.i.b THEN getAtLoop(n.r, x)
    ELSE n.v

getAt(x, getAll) == IF getAll THEN getAtDfs(root, x) ELSE getAtLoop(root, x)

getSize == size

isEmpty == size = 0

(* forEach: in-order walk with the explicit stack st; out collects the     *)
(* callback's arguments in call order.                                     *)
RECURSIVE forEachLoop(_, _, _)
forEachLoop(st, n, out) ==
    IF st = <<>> /\ n = Nil THEN out
    ELSE IF n # Nil THEN forEachLoop(Append(st, n), n.l, out)
    ELSE LET t == st[Len(st)]
         IN  forEachLoop(SubSeq(st, 1, Len(st) - 1), t.r,
                         Append(out, [interval |-> t.i, value |-> t.v]))

toArray == forEachLoop(<<>>, root, <<>>)

(* s.join(', ') from the element j of s on.                                *)
RECURSIVE join(_, _)
join(s, j) ==
    IF j > Len(s) THEN ""
    ELSE IF j = Len(s) THEN s[j]
    ELSE s[j] \o ", " \o join(s, j + 1)

toString ==
    LET e == forEachLoop(<<>>, root, <<>>)
        s == [j \in 1..Len(e) |->
                "[" \o ToString(e[j].interval.a) \o ", "
                    \o ToString(e[j].interval.b) \o "] -> " \o e[j].value]
    IN  join(s, 1)

----------------------------------------------------------------------------
(* clone                                                                   *)

(* cpy that hands the subtrees of the original to the new node.            *)
cpyShallow(n) ==
    IF n = Nil THEN Nil
    ELSE [IntervalMapNode([a |-> n.i.a, b |-> n.i.b], n.v) EXCEPT
             !.l = n.l, !.r = n.r, !.h = n.h, !.m = n.m]

(* cpy builds every node and every interval anew from the numbers and the  *)
(* value reference it reads.                                               *)
RECURSIVE cpy(_)
cpy(n) ==
    IF n = Nil THEN Nil
    ELSE [IntervalMapNode([a |-> n.i.a, b |-> n.i.b], n.v) EXCEPT
             !.l = cpy(n.l), !.r = cpy(n.r), !.h = n.h, !.m = n.m]

----------------------------------------------------------------------------
(* fromArray: sort, optional coalescing sweep, bottom-up build             *)

(* The order of JavaScript's < on the values in use.                       *)
valueLess(x, y) == x = "A" /\ y = "B"

(* A comparator that looks at the start of the intervals alone.            *)
sortCompareStartOnly(x, y, mergeSame) ==
    x.interval.a - y.interval.a

(* The comparator handed to Array.prototype.sort.                          *)
sortCompare(x, y, mergeSame) ==
    LET ix == x.interval
        iy == y.interval
    IN  IF ix.a # iy.a THEN ix.a - iy.a
        ELSE IF ix.b # iy.b THEN ix.b - iy.b
        ELSE IF mergeSame
             THEN (IF valueLess(x.value, y.value) THEN -1
                   ELSE IF valueLess(y.value, x.value) THEN 1 ELSE 0)
             ELSE 0

(* Array.prototype.sort is stable: an element goes behind every element    *)
(* that does not compare greater than it.                                  *)
RECURSIVE sortInsert(_, _, _)
sortInsert(sorted, x, mergeSame) ==
    IF sorted = <<>> THEN <<x>>
    ELSE IF sortCompare(Head(sorted), x, mergeSame) <= 0
         THEN <<Head(sorted)>> \o sortInsert(Tail(sorted), x, mergeSame)
         ELSE <<x>> \o sorted

RECURSIVE sort(_, _)
sort(arr, mergeSame) ==
    IF arr = <<>> THEN <<>>
    ELSE sortInsert(sort(SubSeq(arr, 1, Len(arr) - 1), mergeSame),
                    arr[Len(arr)], mergeSame)

(* A sweep that merges overlapping entries and leaves touching ones apart. *)
RECURSIVE coalesceStrict(_, _, _)
coalesceStrict(arr, i, merged) ==
    IF i > Len(arr) THEN merged
    ELSE LET iv == arr[i].interval
             val == arr[i].value
             pushed == Append(merged, [interval |-> [a |-> iv.a, b |-> iv.b],
                                       value |-> val])
         IN  IF Len(merged) = 0 THEN coalesceStrict(arr, i + 1, pushed)
             ELSE LET lst == merged[Len(merged)]
                      li == lst.interval
                  IN  IF lst.value = val /\ iv.a < li.b
                      THEN coalesceStrict(arr, i + 1,
                               IF iv.b > li.b
                               THEN [merged EXCEPT
                                        ![Len(merged)].interval.b = iv.b]
                               ELSE merged)
                      ELSE coalesceStrict(arr, i + 1, pushed)

(* A sweep that retains the interval of the input instead of a clone.      *)
RECURSIVE coalesceNoClone(_, _, _)
coalesceNoClone(arr, i, merged) ==
    IF i > Len(arr) THEN merged
    ELSE LET iv == arr[i].interval
             val == arr[i].value
             pushed == Append(merged, [interval |-> iv, value |-> val])
         IN  IF Len(merged) = 0 THEN coalesceNoClone(arr, i + 1, pushed)
             ELSE LET lst == merged[Len(merged)]
                      li == lst.interval
                  IN  IF lst.value = val /\ iv.a <= li.b
                      THEN coalesceNoClone(arr, i + 1,
                               IF iv.b > li.b
                               THEN [merged EXCEPT
                                        ![Len(merged)].interval.b = iv.b]
                               ELSE merged)
                      ELSE coalesceNoClone(arr, i + 1, pushed)

(* A sweep that drops a merged entry without extending the retained end.   *)
RECURSIVE coalesceNoExtend(_, _, _)
coalesceNoExtend(arr, i, merged) ==
    IF i > Len(arr) THEN merged
    ELSE LET iv == arr[i].interval
             val == arr[i].value
             pushed == Append(merged, [interval |-> [a |-> iv.a, b |-> iv.b],
                                       value |-> val])
         IN  IF Len(merged) = 0 THEN coalesceNoExtend(arr, i + 1, pushed)
             ELSE LET lst == merged[Len(merged)]
                      li == lst.interval
                  IN  IF lst.value = val /\ iv.a <= li.b
                      THEN coalesceNoExtend(arr, i + 1, merged)
                      ELSE coalesceNoExtend(arr, i + 1, pushed)

(* The coalescing loop from index i (counted from 1) on; a retained entry  *)
(* holds a clone of its interval, whose end the sweep may extend.          *)
RECURSIVE coalesce(_, _, _)
coalesce(arr, i, merged) ==
    IF i > Len(arr) THEN merged
    ELSE LET iv == arr[i].interval
             val == arr[i].value
             pushed == Append(merged, [interval |-> [a |-> iv.a, b |-> iv.b],
                                       value |-> val])
         IN  IF Len(merged) = 0 THEN coalesce(arr, i + 1, pushed)
             ELSE LET lst == merged[Len(merged)]
                      li == lst.interval
                  IN  IF lst.value = val /\ iv.a <= li.b
                      THEN coalesce(arr, i + 1,
                               IF iv.b > li.b
                               THEN [merged EXCEPT
                                        ![Len(merged)].interval.b = iv.b]
                               ELSE merged)
                      ELSE coalesce(arr, i + 1, pushed)

(* build that takes the first index of the range as its middle.            *)
RECURSIVE buildFromLo(_, _, _)
buildFromLo(arr, lo, hi) ==
    IF lo > hi THEN Nil
    ELSE LET mid == lo
             pair == arr[mid + 1]
             l == buildFromLo(arr, lo, mid - 1)
             r == buildFromLo(arr, mid + 1, hi)
             lh == IF l # Nil THEN l.h ELSE 0
             rh == IF r # Nil THEN r.h ELSE 0
             m0 == pair.interval.b
             m1 == IF l # Nil /\ l.m > m0 THEN l.m ELSE m0
             m2 == IF r # Nil /\ r.m > m1 THEN r.m ELSE m1
         IN  [IntervalMapNode(pair.interval, pair.value) EXCEPT
                 !.l = l, !.r = r,
                 !.h = (IF lh > rh THEN lh ELSE rh) + 1,
                 !.m = m2]

(* build that takes the end of the node's own interval as its subtreeMax.  *)
RECURSIVE buildMaxOwnOnly(_, _, _)
buildMaxOwnOnly(arr, lo, hi) ==
    IF lo > hi THEN Nil
    ELSE LET mid == (lo + hi) \div 2
             pair == arr[mid + 1]
             l == buildMaxOwnOnly(arr, lo, mid - 1)
             r == buildMaxOwnOnly(arr, mid + 1, hi)
             lh == IF l # Nil THEN l.h ELSE 0
             rh == IF r # Nil THEN r.h ELSE 0
         IN  [IntervalMapNode(pair.interval, pair.value) EXCEPT
                 !.l = l, !.r = r,
                 !.h = (IF lh > rh THEN lh ELSE rh) + 1]

(* build(lo, hi) over the 0-based indices of arr.                          *)
RECURSIVE build(_, _, _)
build(arr, lo, hi) ==
    IF lo > hi THEN Nil
    ELSE LET mid == (lo + hi) \div 2
             pair == arr[mid + 1]
             l == build(arr, lo, mid - 1)
             r == build(arr, mid + 1, hi)
             lh == IF l # Nil THEN l.h ELSE 0
             rh == IF r # Nil THEN r.h ELSE 0
             m0 == pair.interval.b
             m1 == IF l # Nil /\ l.m > m0 THEN l.m ELSE m0
             m2 == IF r # Nil /\ r.m > m1 THEN r.m ELSE m1
         IN  [IntervalMapNode(pair.interval, pair.value) EXCEPT
                 !.l = l, !.r = r,
                 !.h = (IF lh > rh THEN lh ELSE rh) + 1,
                 !.m = m2]

----------------------------------------------------------------------------
(* The map and a reference dictionary ref keyed by (a,b); last records the *)
(* most recent call: for set the number of nodes it created, for delete    *)
(* the boolean it returned and the branch of del it took.  copy is the map *)
(* returned by the latest clone(), a record [root, size], or Nil while no  *)
(* clone has been taken.                                                   *)

Init ==
    /\ root = Nil
    /\ size = 0
    /\ ref = <<>>
    /\ last = [op |-> "new"]
    /\ copy = Nil

set(it, val) ==
    IF ~instanceofInterval(it)
    THEN /\ last' = [op |-> "set", error |-> "IntervalMap.set expects Interval"]
         /\ UNCHANGED <<root, size, ref, copy>>
    ELSE /\ ref' = [k \in DOMAIN ref \cup {it} |->
                        IF k = it THEN val ELSE ref[k]]
         /\ InBounds(ref')
         /\ LET s == ins(root, it, val)
            IN  /\ root' = s.node
                /\ size' = size + s.inc
                /\ last' = [op |-> "set", inc |-> s.inc]
         /\ UNCHANGED copy

(* delete that decrements size whether or not a node was removed.          *)
deleteAlwaysCounts(it) ==
    IF ~instanceofInterval(it)
    THEN /\ last' = [op |-> "delete",
                      error |-> "IntervalMap.delete expects Interval"]
         /\ UNCHANGED <<root, size, ref, copy>>
    ELSE /\ ref' = [k \in DOMAIN ref \ {it} |-> ref[k]]
         /\ LET d == del(root, it)
            IN  /\ root' = d.node
                /\ size' = size - 1
                /\ last' = [op |-> "delete", ret |-> d.removed,
                             branch |-> delBranch(root, it).branch,
                             path |-> delBranch(root, it).path]
         /\ UNCHANGED copy

delete(it) ==
    IF ~instanceofInterval(it)
    THEN /\ last' = [op |-> "delete",
                      error |-> "IntervalMap.delete expects Interval"]
         /\ UNCHANGED <<root, size, ref, copy>>
    ELSE /\ ref' = [k \in DOMAIN ref \ {it} |-> ref[k]]
         /\ LET d == del(root, it)
            IN  /\ root' = d.node
                /\ size' = IF d.removed THEN size - 1 ELSE size
                /\ last' = [op |-> "delete", ret |-> d.removed,
                             branch |-> delBranch(root, it).branch,
                             path |-> delBranch(root, it).path]
         /\ UNCHANGED copy

(* clear that drops the root and keeps the size.                          *)
clearRootOnly ==
    /\ root' = Nil
    /\ size' = size
    /\ ref' = <<>>
    /\ last' = [op |-> "clear"]
    /\ UNCHANGED copy

clear ==
    /\ root' = Nil
    /\ size' = 0
    /\ ref' = <<>>
    /\ last' = [op |-> "clear"]
    /\ UNCHANGED copy

(* The caller's array once fromArray has returned.  pairs.slice() gives    *)
(* the sort an array of its own, so the elements stay where they were; the *)
(* interval objects are shared with it.  Every interval object of the      *)
(* input carries its position as identity: an entry of the swept array     *)
(* that holds the object id has the a and b the object ends up with, and   *)
(* an object no entry holds was never written to.                          *)
pairsAfter(pairs, mergeSame) ==
    LET objs == [j \in 1..Len(pairs) |->
                    [interval |-> [a |-> pairs[j].interval.a,
                                   b |-> pairs[j].interval.b, id |-> j],
                     value |-> pairs[j].value]]
        sorted == sort(objs, mergeSame)
        arr == IF mergeSame THEN coalesce(sorted, 1, <<>>) ELSE sorted
        held(j) == {arr[k] : k \in {k \in 1..Len(arr) :
                        /\ "id" \in DOMAIN arr[k].interval
                        /\ arr[k].interval.id = j}}
    IN  [j \in 1..Len(pairs) |->
            [interval |->
                IF held(j) = {} THEN pairs[j].interval
                ELSE LET e == CHOOSE e \in held(j) : TRUE
                     IN  [a |-> e.interval.a, b |-> e.interval.b],
             value |-> pairs[j].value]]

(* The static factory fills the map it constructs; an absent pairs         *)
(* argument and the empty array both count as <<>>.                        *)
fromArray(pairs, mergeSame) ==
    /\ LET sorted == sort(pairs, mergeSame)
           arr == IF mergeSame THEN coalesce(sorted, 1, <<>>) ELSE sorted
       IN  IF pairs = <<>>
           THEN root' = Nil /\ size' = 0
           ELSE root' = build(arr, 0, Len(arr) - 1) /\ size' = Len(arr)
    /\ ref' = <<>>
    /\ last' = [op |-> "fromArray", pairs |-> pairs, mergeSame |-> mergeSame,
                 after |-> pairsAfter(pairs, mergeSame)]
    /\ UNCHANGED copy

Next ==
    \/ \E it \in Keys, val \in Values : set(it, val)
    \/ \E it \in Keys : delete(it)
    \/ clear

Spec == Init /\ [][Next]_vars

(* The calls of get, hasOverlap and getOverlapping: last records what the  *)
(* call returned or the error it threw.                                    *)
getCall(it) ==
    /\ last' = IF ~instanceofInterval(it)
               THEN [op |-> "get", error |-> "IntervalMap.get expects Interval"]
               ELSE [op |-> "get", ret |-> get(it)]
    /\ UNCHANGED <<root, size, ref, copy>>

hasOverlapCall(q) ==
    /\ last' = IF ~instanceofInterval(q)
               THEN [op |-> "hasOverlap",
                     error |-> "IntervalMap.hasOverlap expects Interval"]
               ELSE [op |-> "hasOverlap", ret |-> hasOverlap(q)]
    /\ UNCHANGED <<root, size, ref, copy>>

getOverlappingCall(q) ==
    /\ last' = IF ~instanceofInterval(q)
               THEN [op |-> "getOverlapping",
                     error |-> "IntervalMap.getOverlapping expects Interval"]
               ELSE [op |-> "getOverlapping", ret |-> getOverlapping(q)]
    /\ UNCHANGED <<root, size, ref, copy>>

(* The calls of the other read operations.  The callback handed to        *)
(* forEach records its arguments and does nothing else.                    *)
getAtCall(x, getAll) ==
    /\ last' = [op |-> "getAt", ret |-> getAt(x, getAll)]
    /\ UNCHANGED <<root, size, ref, copy>>

(* A traversal that unlinks the tree it walks.                             *)
forEachCallDraining ==
    /\ last' = [op |-> "forEach", calls |-> forEachLoop(<<>>, root, <<>>)]
    /\ root' = Nil
    /\ UNCHANGED <<size, ref, copy>>

forEachCall ==
    /\ last' = [op |-> "forEach", calls |-> forEachLoop(<<>>, root, <<>>)]
    /\ UNCHANGED <<root, size, ref, copy>>

toArrayCall ==
    /\ last' = [op |-> "toArray", ret |-> toArray]
    /\ UNCHANGED <<root, size, ref, copy>>

toStringCall ==
    /\ last' = [op |-> "toString", ret |-> toString]
    /\ UNCHANGED <<root, size, ref, copy>>

getSizeCall ==
    /\ last' = [op |-> "getSize", ret |-> getSize]
    /\ UNCHANGED <<root, size, ref, copy>>

isEmptyCall ==
    /\ last' = [op |-> "isEmpty", ret |-> isEmpty]
    /\ UNCHANGED <<root, size, ref, copy>>

clone ==
    /\ copy' = [root |-> cpy(root), size |-> size]
    /\ last' = [op |-> "clone"]
    /\ UNCHANGED <<root, size, ref>>

(* set, delete and clear called on the clone.                              *)
copySet(it, val) ==
    /\ copy # Nil
    /\ LET s == ins(copy.root, it, val)
       IN  copy' = [root |-> s.node, size |-> copy.size + s.inc]
    /\ last' = [op |-> "copy.set"]
    /\ UNCHANGED <<root, size, ref>>

copyDelete(it) ==
    /\ copy # Nil
    /\ LET d == del(copy.root, it)
       IN  copy' = [root |-> d.node,
                    size |-> IF d.removed THEN copy.size - 1 ELSE copy.size]
    /\ last' = [op |-> "copy.delete"]
    /\ UNCHANGED <<root, size, ref>>

copyClear ==
    /\ copy # Nil
    /\ copy' = [root |-> Nil, size |-> 0]
    /\ last' = [op |-> "copy.clear"]
    /\ UNCHANGED <<root, size, ref>>

NextClone ==
    \/ \E it \in CloneKeys, val \in Values : set(it, val)
    \/ \E it \in CloneKeys : delete(it)
    \/ clear
    \/ clone
    \/ \E it \in CloneKeys, val \in Values : copySet(it, val)
    \/ \E it \in CloneKeys : copyDelete(it)
    \/ copyClear

SpecClone == Init /\ [][NextClone]_vars

NextArgs ==
    \/ \E it \in Args, val \in Values : set(it, val)
    \/ \E it \in Args : delete(it)
    \/ clear
    \/ \E it \in Args : getCall(it)
    \/ \E q \in Args : hasOverlapCall(q)
    \/ \E q \in Args : getOverlappingCall(q)

SpecArgs == Init /\ [][NextArgs]_vars

(* The map under set, delete and clear and every read operation.           *)
ReadPoints == 0..(MaxClone + 1)

NextReads ==
    \/ \E it \in CloneKeys, val \in Values : set(it, val)
    \/ \E it \in CloneKeys : delete(it)
    \/ clear
    \/ \E it \in Args : getCall(it)
    \/ \E q \in Args : hasOverlapCall(q)
    \/ \E q \in Args : getOverlappingCall(q)
    \/ \E x \in ReadPoints, getAll \in BOOLEAN : getAtCall(x, getAll)
    \/ forEachCall
    \/ toArrayCall
    \/ toStringCall
    \/ getSizeCall
    \/ isEmptyCall
    \/ clone

SpecReads == Init /\ [][NextReads]_vars

(* One call of the factory per run, on the map just constructed.           *)
NextFromArray ==
    /\ last.op = "new"
    /\ \E pairs \in Arrays, mergeSame \in BOOLEAN : fromArray(pairs, mergeSame)

SpecFromArray == Init /\ [][NextFromArray]_vars

----------------------------------------------------------------------------
(* Vocabulary of the properties                                            *)

Stored == DOMAIN ref

Entry(k) == [interval |-> k, value |-> ref[k]]

Contains(i, x) == i.a <= x /\ x <= i.b

Overlaps(i, q) == i.a <= q.b /\ q.a <= i.b

Less(x, y) == x.a < y.a \/ (x.a = y.a /\ x.b < y.b)

Range(seq) == {seq[j] : j \in 1..Len(seq)}

Ascending(seq) ==
    \A j1, j2 \in 1..Len(seq) :
        j1 < j2 => Less(seq[j1].interval, seq[j2].interval)

NonOverlapping ==
    \A k1, k2 \in Stored : k1 # k2 => ~Overlaps(k1, k2)

RECURSIVE Nodes(_)
Nodes(n) == IF n = Nil THEN {} ELSE {n} \cup Nodes(n.l) \cup Nodes(n.r)

(* Strict search-tree order of the tree t under lexicographic (a,b).       *)
BSTOrder(t) ==
    \A n \in Nodes(t) :
        /\ \A d \in Nodes(n.l) : Less(d.i, n.i)
        /\ \A d \in Nodes(n.r) : Less(n.i, d.i)

(* The keys of the array arr are pairwise distinct.                        *)
DistinctKeys(arr) ==
    \A j, k \in 1..Len(arr) : j # k => arr[j].interval # arr[k].interval

(* The tree n with the value stored under the key it replaced by val.      *)
RECURSIVE WithValue(_, _, _)
WithValue(n, it, val) ==
    IF n = Nil THEN Nil
    ELSE [n EXCEPT !.v = IF n.i = it THEN val ELSE n.v,
                   !.l = WithValue(n.l, it, val),
                   !.r = WithValue(n.r, it, val)]

(* Closed intervals x and y share a point.                                 *)
Touch(x, y) == x.a <= y.b /\ y.a <= x.b

(* The arrays x and y hold the same pairs the same number of times.        *)
SamePairs(x, y) ==
    /\ Len(x) = Len(y)
    /\ \A e \in Range(x) \cup Range(y) :
           Cardinality({j \in 1..Len(x) : x[j] = e}) =
               Cardinality({j \in 1..Len(y) : y[j] = e})

(* The least h with 2^h >= n + 1, that is ceil(log2(n+1)).                 *)
CeilLog2(n) == CHOOSE h \in 0..n : 2^h >= n + 1 /\ \A g \in 0..(h - 1) : 2^g < n + 1

(* The tree n with every node object and every interval object marked as   *)
(* belonging to the map that holds it; a node or interval made by a        *)
(* constructor call has no mark.                                           *)
RECURSIVE Owned(_)
Owned(n) ==
    IF n = Nil THEN Nil
    ELSE [i |-> [a |-> n.i.a, b |-> n.i.b, o |-> "this"],
          v |-> n.v, m |-> n.m, h |-> n.h,
          l |-> Owned(n.l), r |-> Owned(n.r), o |-> "this"]

(* No node and no interval of the tree t is an object of another map.      *)
Fresh(t) ==
    \A d \in Nodes(t) : "o" \notin DOMAIN d /\ "o" \notin DOMAIN d.i

(* The step threw the error msg and left the map as it was.                *)
Rejected(msg) ==
    /\ "error" \in DOMAIN last'
    /\ last'.error = msg
    /\ root' = root
    /\ size' = size

RECURSIVE TrueHeight(_)
TrueHeight(n) ==
    IF n = Nil THEN 0
    ELSE LET hl == TrueHeight(n.l)
             hr == TrueHeight(n.r)
         IN  1 + (IF hl > hr THEN hl ELSE hr)

RECURSIVE Ends(_)
Ends(n) == IF n = Nil THEN {} ELSE {n.i.b} \cup Ends(n.l) \cup Ends(n.r)

TrueMax(n) == CHOOSE e \in Ends(n) : \A f \in Ends(n) : f <= e

----------------------------------------------------------------------------
(* C1: whenever some stored interval contains x, getAt(x) on the fast path *)
(* returns the value of a stored interval containing x and never null,     *)
(* whether or not stored intervals overlap.                                *)
C1_FastPathFindsContaining ==
    \A x \in QueryPoints :
        (\E k \in Stored : Contains(k, x)) =>
            /\ getAt(x, FALSE) # Null
            /\ \E k \in Stored : Contains(k, x) /\ getAt(x, FALSE) = ref[k]

(* C2: when the stored intervals are pairwise non-overlapping, getAt(x) on *)
(* the fast path returns the value of the stored interval containing x,    *)
(* and null exactly when no stored interval contains x.                    *)
C2_FastPathNonOverlapping ==
    NonOverlapping =>
        \A x \in QueryPoints :
            /\ \A k \in Stored : Contains(k, x) => getAt(x, FALSE) = ref[k]
            /\ (getAt(x, FALSE) = Null) <=> ~(\E k \in Stored : Contains(k, x))

C2_Witness ==
    /\ NonOverlapping
    /\ \E k1, k2 \in Stored : \E x, y, z \in QueryPoints :
        /\ ref[k1] # ref[k2]
        /\ x = k1.b /\ getAt(x, FALSE) = ref[k1]
        /\ y = k2.a /\ getAt(y, FALSE) = ref[k2]
        /\ (\A k \in Stored : ~Contains(k, z)) /\ getAt(z, FALSE) = Null

(* C3: hasOverlap(Q) is true exactly when getOverlapping(Q) is non-empty,  *)
(* and a stored interval sharing only an endpoint with Q makes it true.    *)
C3_HasOverlapIffOverlapping ==
    \A q \in Queries :
        /\ hasOverlap(q) <=> (getOverlapping(q) # <<>>)
        /\ \A k \in Stored : (k.b = q.a \/ k.a = q.b) => hasOverlap(q)

C3_Witness ==
    /\ Cardinality(Stored) >= 4
    /\ \E q \in Queries :
        /\ hasOverlap(q)
        /\ \E k \in Stored : k.b = q.a
        /\ \A k \in Stored : Overlaps(k, q) => k.b = q.a
    /\ \E q \in Queries :
        /\ ~hasOverlap(q)
        /\ \E k \in Stored : k.b < q.a
        /\ \E k \in Stored : q.b < k.a

(* C4: getOverlapping([qa,qb]) returns exactly the stored entries with     *)
(* a <= qb and qa <= b, each once with its current value, in strictly      *)
(* ascending (a,b) order.                                                  *)
C4_GetOverlappingExact ==
    \A q \in Queries :
        LET out == getOverlapping(q)
        IN  /\ Ascending(out)
            /\ Range(out) = {Entry(k) : k \in {s \in Stored : Overlaps(s, q)}}

C4_Witness ==
    /\ Cardinality(Stored) >= 5
    /\ \E q \in Queries :
        /\ Len(getOverlapping(q)) >= 3
        /\ \E k \in Stored : k.b < q.a
        /\ \E k \in Stored : q.b < k.a
        /\ \E k \in Stored : k.a < q.a /\ q.b < k.b

(* C5: getAt(x, true) returns exactly the stored entries with a <= x <= b, *)
(* each once, in ascending (a,b) order.                                    *)
C5_GetAtAllExact ==
    \A x \in QueryPoints :
        LET out == getAt(x, TRUE)
        IN  /\ Ascending(out)
            /\ Range(out) = {Entry(k) : k \in {s \in Stored : Contains(s, x)}}

C5_Witness ==
    /\ Cardinality(Stored) >= 5
    /\ \E x \in QueryPoints :
        /\ Len(getAt(x, TRUE)) >= 3
        /\ \E k \in Stored : k.a = x
        /\ \E k \in Stored : k.b = x /\ k.a < x
        /\ \E k \in Stored : k.b < x
        /\ \E k \in Stored : x < k.a

(* C6: right after set(k, v), get(k) returns v; and in every state get(k') *)
(* returns null for every interval k' that is not stored, also when a      *)
(* stored interval has the same start as k'.                               *)
C6_GetAfterSet ==
    /\ [](\A k \in Queries : k \notin Stored => get(k) = Null)
    /\ [][\A it \in Keys, val \in Values :
            set(it, val) => getLoop(root', it) = val]_vars

C6_Witness ==
    /\ last.op = "set"
    /\ \E k \in Stored : \E k2 \in Queries :
        /\ get(k) = "B"
        /\ k2 \notin Stored /\ k2.a = k.a /\ k2.b < k.b /\ get(k2) = Null
    /\ \E k \in Stored : \E k2 \in Queries :
        /\ get(k) = "A"
        /\ k2 \notin Stored /\ k2.a = k.a /\ k2.b > k.b /\ get(k2) = Null

(* C7: the map equals the reference dictionary: toArray() lists the        *)
(* dictionary's entries in ascending (a,b) order with their values and     *)
(* getSize() is its cardinality.                                           *)
C7_RefinesDictionary ==
    /\ Ascending(toArray)
    /\ Range(toArray) = {Entry(k) : k \in Stored}
    /\ Len(toArray) = Cardinality(Stored)
    /\ getSize = Cardinality(Stored)

C7_Witness ==
    /\ last.op = "delete" /\ last.ret
    /\ last.branch = "successor" /\ last.path >= 1
    /\ Cardinality(Stored) >= 6
    /\ Len(toArray) = Cardinality(Stored)
    /\ \E j \in 1..(Len(toArray) - 1) :
            toArray[j].interval.a = toArray[j + 1].interval.a

(* C8: every node is height-balanced: the heights of its two subtrees      *)
(* (0 for an absent child) differ by at most 1.                            *)
C8_Balanced ==
    \A n \in Nodes(root) :
        /\ TrueHeight(n.l) - TrueHeight(n.r) <= 1
        /\ TrueHeight(n.r) - TrueHeight(n.l) <= 1

C8_Witness ==
    /\ last.op = "delete" /\ last.ret
    /\ last.branch = "successor"
    /\ TrueHeight(root) = 4
    /\ \E n \in Nodes(root) : TrueHeight(n.l) = TrueHeight(n.r) + 1
    /\ \E n \in Nodes(root) : TrueHeight(n.r) = TrueHeight(n.l) + 1

(* C9: every node's cached height is 1 + max of its children's heights and *)
(* its cached subtreeMax is the largest right endpoint in its subtree.     *)
C9_CachesExact ==
    \A n \in Nodes(root) :
        /\ n.h = TrueHeight(n)
        /\ n.m = TrueMax(n)

C9_Witness ==
    /\ last.op = "delete" /\ last.ret
    /\ last.branch = "successor" /\ last.path >= 1
    /\ Cardinality(Stored) >= 6
    /\ \E n \in Nodes(root) : n.m > n.i.b /\ n.l # Nil /\ n.m = n.l.m
    /\ \E n \in Nodes(root) : n.m > n.i.b /\ n.r # Nil /\ n.m = n.r.m

(* C10: the in-order traversal is strictly ascending by (a,b), so no key   *)
(* occurs twice, and visits getSize() entries.                             *)
C10_OrderedAndCounted ==
    /\ \A j \in 1..(Len(toArray) - 1) :
            Less(toArray[j].interval, toArray[j + 1].interval)
    /\ Len(toArray) = getSize

C10_Witness ==
    /\ last.op = "set"
    /\ getSize >= 6
    /\ Len(toArray) = getSize
    /\ \E j \in 1..(Len(toArray) - 1) :
        /\ toArray[j].interval.a = toArray[j + 1].interval.a
        /\ toArray[j].interval.b < toArray[j + 1].interval.b

(* C11: every map returned by fromArray, for either value of mergeSame,    *)
(* is in strict search-tree order: at every node all left descendants      *)
(* compare less and all right descendants compare greater by (a,b).        *)
C11_FromArrayOrdered ==
    last.op = "fromArray" => BSTOrder(root)

(* C12: delete(k) of a stored key k returns true, decrements size by 1,    *)
(* makes get(k) null and leaves every other key with the value it had,     *)
(* also when k's node has two children and receives its successor.         *)
C12_DeleteStored ==
    [][\A it \in Keys :
          (delete(it) /\ get(it) # Null) =>
              /\ last'.ret
              /\ size' = size - 1
              /\ getLoop(root', it) = Null
              /\ \A k \in Keys \ {it} : getLoop(root', k) = get(k)]_vars

C12_Witness ==
    /\ last.op = "delete" /\ last.ret
    /\ last.branch = "successor"
    /\ size >= 2
    /\ \E k1, k2 \in Stored : get(k1) = "A" /\ get(k2) = "B"

(* C13: delete(k) of a key k that is not stored returns false and leaves   *)
(* the map as it was: the same size and the same tree, with its shape,     *)
(* intervals, values, cached heights and cached subtreeMax.                *)
C13_DeleteAbsent ==
    [][\A it \in Keys :
          (delete(it) /\ get(it) = Null) =>
              /\ ~last'.ret
              /\ root' = root
              /\ size' = size]_vars

C13_Witness ==
    /\ last.op = "delete" /\ ~last.ret
    /\ last.branch = "absent"
    /\ size >= 4
    /\ TrueHeight(root) >= 3

(* C14: when keys are inserted and then deleted, every delete of a key     *)
(* that is still stored returns true and leaves as many entries as keys    *)
(* remain; once every inserted key is deleted the size is 0 and the root   *)
(* is null, and the size is never negative.                                *)
C14_DeleteAll ==
    /\ [](size >= 0 /\ (Stored = {} => root = Nil /\ size = 0))
    /\ [][\A it \in Keys :
            (delete(it) /\ it \in Stored) =>
                last'.ret /\ size' = Cardinality(Stored')]_vars

C14_Witness ==
    /\ last.op = "delete" /\ last.ret
    /\ last.branch = "splice"
    /\ Stored = {}
    /\ root = Nil /\ size = 0

(* C15: set(k, v) on a stored key k changes that node's value and nothing  *)
(* else (size, shape, intervals, cached heights and subtreeMax stay); on a *)
(* key that is not stored it increases size by exactly 1.                  *)
C15_SetFrame ==
    [][\A it \in Keys, val \in Values :
          set(it, val) =>
              IF get(it) # Null
              THEN size' = size /\ root' = WithValue(root, it, val)
              ELSE size' = size + 1]_vars

C15_Witness ==
    /\ last.op = "set" /\ last.inc = 0
    /\ size >= 3
    /\ TrueHeight(root) >= 2
    /\ \E k1, k2 \in Stored : get(k1) = "A" /\ get(k2) = "B"

(* C16: in the map returned by fromArray(pairs, true) no two distinct      *)
(* entries with equal value have intervals that overlap or touch.          *)
C16_MergedApart ==
    (last.op = "fromArray" /\ last.mergeSame) =>
        \A j, k \in 1..Len(toArray) :
            (j # k /\ toArray[j].value = toArray[k].value) =>
                ~Touch(toArray[j].interval, toArray[k].interval)

(* C17: fromArray(pairs, false) keeps every pair: getSize() is             *)
(* pairs.length and toArray() is the input pairs in ascending (a,b) order, *)
(* each as often as the input has it, none merged, dropped or altered.     *)
C17_KeepsAll ==
    (last.op = "fromArray" /\ ~last.mergeSame) =>
        /\ getSize = Len(last.pairs)
        /\ SamePairs(toArray, last.pairs)
        /\ \A j \in 1..(Len(toArray) - 1) :
               ~Less(toArray[j + 1].interval, toArray[j].interval)

C17_Witness ==
    /\ last.op = "fromArray" /\ ~last.mergeSame
    /\ getSize >= 6
    /\ \E j \in 1..(Len(last.pairs) - 1) :
           Less(last.pairs[j + 1].interval, last.pairs[j].interval)
    /\ \E j, k \in 1..Len(toArray) :
        /\ j # k
        /\ toArray[j].value = toArray[k].value
        /\ toArray[j].interval.a < toArray[k].interval.a
        /\ toArray[k].interval.a < toArray[j].interval.b

(* C18: the tree fromArray builds over the n entries left after the        *)
(* optional merge has root height ceil(log2(n+1)), subtree heights that    *)
(* differ by at most 1 at every node, exact cached heights and subtreeMax, *)
(* and size n.                                                             *)
C18_BuildBalanced ==
    last.op = "fromArray" =>
        LET n == Len(toArray)
        IN  /\ size = n
            /\ height(root) = CeilLog2(n)
            /\ TrueHeight(root) = CeilLog2(n)
            /\ \A d \in Nodes(root) :
                /\ TrueHeight(d.l) - TrueHeight(d.r) <= 1
                /\ TrueHeight(d.r) - TrueHeight(d.l) <= 1
                /\ d.h = TrueHeight(d)
                /\ d.m = TrueMax(d)

C18_Witness ==
    /\ last.op = "fromArray" /\ last.mergeSame
    /\ Len(toArray) < Len(last.pairs)
    /\ size = 4 /\ height(root) = 3
    /\ \E d \in Nodes(root) : d.r # Nil /\ d.m = d.r.m /\ d.m > d.i.b

(* C19: clone() returns a map of the same size with the same in-order      *)
(* entries (the same tree, value for value) that shares no node and no     *)
(* interval object with the original; afterwards a set, delete or clear on *)
(* the original leaves the clone's root and size, hence every query on it, *)
(* as they were, and a set, delete or clear on the clone leaves the        *)
(* original's.                                                             *)
C19_CloneIndependent ==
    /\ [](Fresh(cpy(Owned(root))))
    /\ [][/\ last'.op = "clone" =>
                /\ copy'.size = size
                /\ forEachLoop(<<>>, copy'.root, <<>>) = toArray
                /\ copy'.root = root
          /\ last'.op \in {"set", "delete", "clear"} =>
                copy' = copy
          /\ last'.op \in {"copy.set", "copy.delete", "copy.clear"} =>
                root' = root /\ size' = size]_vars

C19_Witness ==
    /\ copy # Nil
    /\ last.op = "set"
    /\ size = 3 /\ copy.size = 2
    /\ \E k \in CloneKeys :
        /\ get(k) = "A"
        /\ getLoop(copy.root, k) = "B"
    /\ \E k \in CloneKeys : get(k) # Null /\ getLoop(copy.root, k) = Null

(* C20: set, get, delete, hasOverlap and getOverlapping called with an     *)
(* argument that is not an Interval throw their error, whatever the map    *)
(* holds, and leave the root, the tree and the size as they were.          *)
C20_RejectsNonInterval ==
    [][\A x \in NonIntervals :
          /\ (\E val \in Values : set(x, val)) =>
                Rejected("IntervalMap.set expects Interval")
          /\ delete(x) => Rejected("IntervalMap.delete expects Interval")
          /\ getCall(x) => Rejected("IntervalMap.get expects Interval")
          /\ hasOverlapCall(x) =>
                Rejected("IntervalMap.hasOverlap expects Interval")
          /\ getOverlappingCall(x) =>
                Rejected("IntervalMap.getOverlapping expects Interval")]_vars

C20_Witness ==
    /\ "error" \in DOMAIN last
    /\ last.op = "getOverlapping"
    /\ size = 3 /\ root # Nil
    /\ getOverlapping([a |-> 0, b |-> 1]) # <<>>

(* C21: right after clear() the root is null and the size 0, getSize() is  *)
(* 0, isEmpty() is true, every get and getAt returns null (getAt(x, true)  *)
(* the empty array), hasOverlap is false and getOverlapping is empty for   *)
(* every query; a set that follows gives the map a fresh map would get.    *)
C21_ClearEmpties ==
    /\ [](last.op = "clear" =>
            /\ root = Nil /\ size = 0
            /\ getSize = 0 /\ isEmpty
            /\ toArray = <<>>
            /\ \A x \in QueryPoints :
                    getAt(x, FALSE) = Null /\ getAt(x, TRUE) = <<>>
            /\ \A q \in Queries :
                    /\ get(q) = Null
                    /\ ~hasOverlap(q)
                    /\ getOverlapping(q) = <<>>)
    /\ [][\A it \in Keys, val \in Values :
            (last.op = "clear" /\ set(it, val)) =>
                /\ root' = IntervalMapNode(it, val)
                /\ size' = 1
                /\ getLoop(root', it) = val]_vars

C21_Witness ==
    /\ last.op = "clear"
    /\ root = Nil /\ isEmpty
    /\ ref = <<>>

(* The reference sweep: the pairs in the order of (a, b, value), scanned   *)
(* left to right with the list of retained entries.                        *)
RefLess(x, y) ==
    \/ Less(x.interval, y.interval)
    \/ x.interval = y.interval /\ valueLess(x.value, y.value)

RECURSIVE RefSort(_)
RefSort(arr) ==
    IF arr = <<>> THEN <<>>
    ELSE LET j == CHOOSE j \in 1..Len(arr) :
                      \A k \in 1..Len(arr) : ~RefLess(arr[k], arr[j])
         IN  <<arr[j]>> \o
                 RefSort(SubSeq(arr, 1, j - 1) \o SubSeq(arr, j + 1, Len(arr)))

Max(x, y) == IF x > y THEN x ELSE y

RECURSIVE RefSweep(_, _)
RefSweep(sorted, kept) ==
    IF sorted = <<>> THEN kept
    ELSE LET e == Head(sorted)
             n == Len(kept)
         IN  IF n > 0 /\ kept[n].value = e.value
                      /\ e.interval.a <= kept[n].interval.b
             THEN RefSweep(Tail(sorted),
                      SubSeq(kept, 1, n - 1) \o
                      <<[interval |-> [a |-> kept[n].interval.a,
                                       b |-> Max(kept[n].interval.b,
                                                 e.interval.b)],
                         value |-> e.value]>>)
             ELSE RefSweep(Tail(sorted), Append(kept, e))

----------------------------------------------------------------------------
(* rebalance on its own.  The nodes handed to it: a node over two AVL      *)
(* subtrees of every shape whose heights differ by at most 2, as ins,      *)
(* delMin and del leave it after update, with at most MaxNodes nodes in    *)
(* all.  The entries are the chain keys in in-order, so that the largest   *)
(* end of a subtree sits at its root, in its left or in its right subtree. *)
MaxNodes == 10

Count(n) == Cardinality(Nodes(n))

subtree(l, p, r) ==
    update([IntervalMapNode(ChainKey(p), "A") EXCEPT !.l = l, !.r = r])

(* The AVL trees of height h with at most max nodes, labelled from lo on.  *)
RECURSIVE AVLTrees(_, _, _)
AVLTrees(h, lo, max) ==
    IF h = 0 THEN {Nil}
    ELSE IF max < h THEN {}
    ELSE UNION {
            UNION {{subtree(l, lo + Count(l), r) :
                        r \in AVLTrees(hs[2], lo + Count(l) + 1,
                                       max - 1 - Count(l))} :
                    l \in AVLTrees(hs[1], lo, max - 1)} :
            hs \in {g \in {<<h - 1, h - 1>>, <<h - 1, h - 2>>,
                          <<h - 2, h - 1>>} : g[1] >= 0 /\ g[2] >= 0}}

RebalanceInputs(max) ==
    UNION {
        UNION {{subtree(l, Count(l), r) :
                    r \in AVLTrees(hs[2], Count(l) + 1,
                                   max - 1 - Count(l))} :
                l \in AVLTrees(hs[1], 0, max - 1)} :
        hs \in {g \in (0..max) \X (0..max) :
                    g[1] - g[2] \in -2..2}}

InitRebalance ==
    /\ root \in RebalanceInputs(MaxNodes)
    /\ size = Count(root)
    /\ ref = <<>>
    /\ last = [op |-> "update"]
    /\ copy = Nil

rebalanceCall ==
    /\ last.op = "update"
    /\ root' = rebalance(root)
    /\ last' = [op |-> "rebalance", n |-> root]
    /\ UNCHANGED <<size, ref, copy>>

NextRebalance == rebalanceCall

SpecRebalance == InitRebalance /\ [][NextRebalance]_vars

InOrder(n) == forEachLoop(<<>>, n, <<>>)

(* C23: rebalance of a node over two AVL subtrees with exact caches whose  *)
(* balance factor is in -2..2 returns a subtree in which every node has a  *)
(* balance factor in -1..1 and exact height and subtreeMax caches, with    *)
(* the in-order sequence of entries it had; a node whose balance factor is *)
(* in -1..1 is returned as it is.                                          *)
C23_RebalanceRestores ==
    last.op = "rebalance" =>
        /\ \A d \in Nodes(root) :
              /\ TrueHeight(d.l) - TrueHeight(d.r) \in -1..1
              /\ d.h = TrueHeight(d)
              /\ d.m = TrueMax(d)
        /\ InOrder(root) = InOrder(last.n)
        /\ bf(last.n) \in -1..1 => root = last.n

(* A double rotation on a right-heavy node whose largest end moved.        *)
C23_Witness ==
    /\ last.op = "rebalance"
    /\ bf(last.n) = -2 /\ bf(last.n.r) > 0
    /\ TrueHeight(last.n) >= 4
    /\ root.i # last.n.i
    /\ root.m > root.i.b

(* The read operations.                                                    *)
ReadOps ==
    {"get", "hasOverlap", "getOverlapping", "getAt", "forEach", "toArray",
     "toString", "getSize", "isEmpty", "clone"}

(* C24: a call of get, hasOverlap, getOverlapping, getAt (either mode),    *)
(* forEach, toArray, toString, getSize, isEmpty or clone leaves the map as *)
(* it was: the same root and tree shape, the same intervals and values in  *)
(* every node, the same cached heights and subtreeMax, the same size.      *)
C24_ReadsFrame ==
    [][last'.op \in ReadOps => root' = root /\ size' = size]_vars

(* Every kind of read has returned from a map of three entries.            *)
C24_Witness ==
    /\ last.op = "toString"
    /\ last.ret = "[0, 0] -> A, [0, 1] -> B, [1, 1] -> A"
    /\ height(root) = 2 /\ size = 3
    /\ copy # Nil /\ copy.size = 3

(* C25: when fromArray(pairs, mergeSame) has returned, for either value of *)
(* mergeSame, the array pairs has the length and the element order it had  *)
(* and every interval of it the a and b it had, also where the sweep       *)
(* extended the end of a retained interval.                                *)
C25_InputUntouched ==
    last.op = "fromArray" =>
        /\ Len(last.after) = Len(last.pairs)
        /\ \A j \in 1..Len(last.pairs) :
              /\ last.after[j].value = last.pairs[j].value
              /\ last.after[j].interval.a = last.pairs[j].interval.a
              /\ last.after[j].interval.b = last.pairs[j].interval.b

(* An unsorted input whose first entry in sort order was retained and had  *)
(* its end extended.                                                       *)
C25_Witness ==
    /\ last.op = "fromArray" /\ last.mergeSame
    /\ \E j \in 1..(Len(last.pairs) - 1) :
           Less(last.pairs[j + 1].interval, last.pairs[j].interval)
    /\ \E e \in Range(toArray), j \in 1..Len(last.pairs) :
           /\ e.value = last.pairs[j].value
           /\ e.interval.a = last.pairs[j].interval.a
           /\ e.interval.b > last.pairs[j].interval.b
           /\ \A k \in 1..Len(last.pairs) : last.pairs[k].interval # e.interval

(* The points coverage is compared at: every endpoint in use and a point   *)
(* strictly between every two neighbouring ones, as twice their value.     *)
HalfPoints == 0..(2 * (MaxChain + 4))

(* The point h/2 lies in an interval of value v of the array arr.          *)
Covers(arr, v, h) ==
    \E j \in 1..Len(arr) :
        /\ arr[j].value = v
        /\ 2 * arr[j].interval.a <= h
        /\ h <= 2 * arr[j].interval.b

(* C26: for every value v and every point x, x lies in some stored         *)
(* interval of value v of fromArray(pairs, true) iff x lies in some input  *)
(* interval of value v: merging loses no covered point and covers no new   *)
(* one.                                                                    *)
C26_CoveragePreserved ==
    (last.op = "fromArray" /\ last.mergeSame) =>
        /\ \A stored \in {toArray} : \A v \in Values, h \in HalfPoints :
              Covers(stored, v, h) <=> Covers(last.pairs, v, h)
        /\ \A v \in Values, x \in QueryPoints :
              (\E e \in Range(getAt(x, TRUE)) : e.value = v)
                  <=> Covers(last.pairs, v, 2 * x)

(* Touching intervals of one value were merged into an interval no input   *)
(* has, next to a gap that no interval of that value covers.               *)
C26_Witness ==
    /\ last.op = "fromArray" /\ last.mergeSame
    /\ Len(toArray) < Len(last.pairs)
    /\ \E v \in Values, h \in HalfPoints :
           /\ Covers(toArray, v, h - 1) /\ ~Covers(toArray, v, h)
           /\ Covers(toArray, v, h + 1)
    /\ \E e \in Range(toArray) :
           \A j \in 1..Len(last.pairs) : last.pairs[j].interval # e.interval

(* The map a new IntervalMap becomes when the pairs of seq are handed to   *)
(* set one after the other, from the pair j on.                            *)
RECURSIVE setAll(_, _, _)
setAll(map, seq, j) ==
    IF j > Len(seq) THEN map
    ELSE LET s == ins(map.root, seq[j].interval, seq[j].value)
         IN  setAll([root |-> s.node, size |-> map.size + s.inc], seq, j + 1)

(* The orders the pairs are inserted in: every order of an array of at     *)
(* most MaxPairs pairs; a longer array as it is, rotated, and each of      *)
(* these backwards.                                                        *)
Orders(pairs) ==
    LET n == Len(pairs)
    IN  IF n <= MaxPairs
        THEN {[j \in 1..n |-> pairs[f[j]]] : f \in Permutations(1..n)}
        ELSE UNION {{[j \in 1..n |-> pairs[((j + k) % n) + 1]],
                     [j \in 1..n |-> pairs[((n - j + k) % n) + 1]]} :
                    k \in 0..(n - 1)}

(* The query points up to one beyond the largest end in the array pairs,   *)
(* and the query intervals over them.                                      *)
PointsOf(pairs) ==
    {x \in QueryPoints :
        x = 0 \/ \E j \in 1..Len(pairs) : x <= pairs[j].interval.b + 1}

QueriesOf(pairs) == {q \in Queries : q.b \in PointsOf(pairs)}

(* C27: for an array of pairwise distinct keys, fromArray(pairs, false)    *)
(* and a new map into which the pairs are set in any order have the same   *)
(* size and toArray() and answer every get, hasOverlap, getOverlapping and *)
(* getAt(x, true) alike, whatever the shapes of the two trees.             *)
C27_FromArrayAsSets ==
    (last.op = "fromArray" /\ ~last.mergeSame /\ DistinctKeys(last.pairs)) =>
        \A m \in {setAll([root |-> Nil, size |-> 0], seq, 1) :
                        seq \in Orders(last.pairs)} :
                /\ size = m.size
                /\ toArray = forEachLoop(<<>>, m.root, <<>>)
                /\ \A q \in QueriesOf(last.pairs) :
                      /\ get(q) = getLoop(m.root, q)
                      /\ hasOverlap(q) = hasOverlapLoop(m.root, q)
                      /\ getOverlapping(q) = getOverlappingDfs(m.root, q)
                /\ \A x \in PointsOf(last.pairs) :
                      getAt(x, TRUE) = getAtDfs(m.root, x)

(* A chain array whose tree differs in shape from a tree the sets of the   *)
(* same pairs build, with an overlap query that finds several entries.     *)
C27_Witness ==
    /\ last.op = "fromArray" /\ ~last.mergeSame /\ DistinctKeys(last.pairs)
    /\ Len(last.pairs) > MaxPairs
    /\ \E seq \in Orders(last.pairs) :
           setAll([root |-> Nil, size |-> 0], seq, 1).root # root
    /\ \E q \in Queries : Len(getOverlapping(q)) >= 3

====
